---- MODULE Spec2Model ----
(***************************************************************************)
(* Model of frb_rust/src/misc/into_into_dart.rs: the IntoIntoDart trait    *)
(* and its implementations.                                                *)
(*                                                                         *)
(* A type (shape) is a triple <<ctor, args, n>>: ctor is a leaf type name  *)
(* or one of "Vec", "Option", "RustOpaque", "ZeroCopyBuffer", "Array",     *)
(* "Box", "Tuple"; args are the type arguments; n is the const length of   *)
(* an array (0 elsewhere).                                                 *)
(* A value is a triple <<tag, kids, data>>: tag names the constructor      *)
(* ("Vec", "Some", "None", "ZeroCopyBuffer", "Array", "Box", "Tuple",      *)
(* "RustOpaque" or a leaf type name), kids are the contained values, data  *)
(* is the payload of a leaf (0 elsewhere).                                 *)
(***************************************************************************)
EXTENDS Integers, Sequences, FiniteSets, TLC

VARIABLES cfg, form, shape, value, pc, recv, rule, target, out

vars == <<cfg, form, shape, value, pc, recv, rule, target, out>>

(***************************************************************************)
(* Bounds of the explored inputs.                                          *)
(***************************************************************************)
MaxDepth == 2
MaxLen == 2
MaxSeed == 3
MaxData == 1
MaxArity == 6

(***************************************************************************)
(* Types.                                                                  *)
(***************************************************************************)
Leaf(name) == <<name, <<>>, 0>>
VecOf(T) == <<"Vec", <<T>>, 0>>
OptionOf(T) == <<"Option", <<T>>, 0>>
RustOpaqueOf(T) == <<"RustOpaque", <<T>>, 0>>
ZeroCopyBufferOf(T) == <<"ZeroCopyBuffer", <<T>>, 0>>
ArrayOf(T, C) == <<"Array", <<T>>, C>>
BoxOf(T) == <<"Box", <<T>>, 0>>
TupleOf(slots) == <<"Tuple", slots, 0>>

\* The receivers a method call dereferences: Box<T> owns its interior; &T and
\* Rc<T> (and with them &mut T, Arc<T>) lend it.
RefOf(T) == <<"Ref", <<T>>, 0>>
RcOf(T) == <<"Rc", <<T>>, 0>>
Pointers == {"Box", "Ref", "Rc"}

Ctor(S) == S[1]
Args(S) == S[2]
Arg(S) == S[2][1]

\* The types impl_into_into_dart_by_self! is invoked on without a cfg attribute.
PrimitiveTypes ==
    {"u8", "i8", "u16", "i16", "u32", "i32", "u64", "i64", "f32", "f64",
     "bool", "unit", "usize", "String", "DartOpaque"}

ChronoTypes == {"Duration", "NaiveDateTime", "DateTimeLocal", "DateTimeUtc"}

\* The leaf types the file names under a cfg attribute or next to one.
ConditionalTypes == {"DartCObject", "JsValue", "Uuid", "Backtrace"} \cup ChronoTypes

\* User types the file has no impl for; they stand for "any other T".
UserTypes == {"UserStruct", "UnsafeCellStruct"}

LeafNames == PrimitiveTypes \cup ConditionalTypes \cup UserTypes

\* A build configuration: the three cfg predicates the file tests.
Configs == [wasm : BOOLEAN, uuid : BOOLEAN, chrono : BOOLEAN]

\* Mutant: the uuid::Uuid impl without its cfg attribute.
BySelfTypesUuidUngated(c) ==
    PrimitiveTypes
    \cup (IF ~c.wasm THEN {"DartCObject"} ELSE {})
    \cup (IF c.wasm THEN {"JsValue"} ELSE {})
    \cup {"Uuid"}
    \cup {"Backtrace"}
    \cup (IF c.chrono THEN ChronoTypes ELSE {})

\* The types impl_into_into_dart_by_self! is expanded for under configuration c.
BySelfTypes(c) ==
    PrimitiveTypes
    \cup (IF ~c.wasm THEN {"DartCObject"} ELSE {})
    \cup (IF c.wasm THEN {"JsValue"} ELSE {})
    \cup (IF c.uuid THEN {"Uuid"} ELSE {})
    \cup {"Backtrace"}
    \cup (IF c.chrono THEN ChronoTypes ELSE {})

\* T: DartSafe (crate::rust_opaque; unwind safety of the payload type).
DartSafe(T) == Ctor(T) # "UnsafeCellStruct"

\* D: IntoDart (crate::generalized_isolate): the boundary-representable types.
\* Every target shape of the rule catalogue over the leaves of the build; a Box
\* is no target shape.
RECURSIVE IntoDart(_, _)
IntoDart(D, c) ==
    CASE Ctor(D) \in LeafNames -> Ctor(D) \in BySelfTypes(c)
      [] Ctor(D) \in {"Vec", "Option", "ZeroCopyBuffer", "Array"} -> IntoDart(Arg(D), c)
      [] Ctor(D) = "RustOpaque" -> DartSafe(Arg(D))
      [] Ctor(D) = "Tuple" ->
            /\ Len(Args(D)) \in 2..5
            /\ \A k \in 1..Len(Args(D)) : IntoDart(Args(D)[k], c)
      [] OTHER -> FALSE

(***************************************************************************)
(* The impls, at the type level: each gives the set of D with              *)
(* S: IntoIntoDart<D> by that impl (empty when the impl does not match S   *)
(* or a where clause fails).                                               *)
(***************************************************************************)
RECURSIVE Impls(_, _)

\* Mutant: the Vec impl without its where clauses.
VecImplNoBounds(S, c) ==
    IF Ctor(S) # "Vec" THEN {} ELSE {VecOf(Arg(S))}

VecImpl(S, c) ==
    IF Ctor(S) # "Vec" THEN {}
    ELSE {VecOf(D) : D \in {E \in Impls(Arg(S), c) :
                              IntoDart(VecOf(E), c) /\ IntoDart(E, c)}}

OptionImpl(S, c) ==
    IF Ctor(S) # "Option" THEN {}
    ELSE {OptionOf(D) : D \in {E \in Impls(Arg(S), c) : IntoDart(E, c)}}

RustOpaqueImpl(S, c) ==
    IF Ctor(S) = "RustOpaque" /\ DartSafe(Arg(S)) THEN {S} ELSE {}

ZeroCopyBufferImpl(S, c) ==
    IF Ctor(S) # "ZeroCopyBuffer" THEN {}
    ELSE {ZeroCopyBufferOf(D) : D \in {E \in Impls(Arg(S), c) :
                              IntoDart(E, c) /\ IntoDart(ZeroCopyBufferOf(E), c)}}

ArrayImpl(S, c) ==
    IF Ctor(S) = "Array" /\ IntoDart(Arg(S), c) /\ IntoDart(S, c) THEN {S} ELSE {}

BoxImpl(S, c) ==
    IF Ctor(S) = "Box" /\ IntoDart(Arg(S), c) THEN {Arg(S)} ELSE {}

\* The D with Args(S)[k]: IntoIntoDart<D> and D: IntoDart (one slot's where clauses).
SlotImpls(S, c, k) == {E \in Impls(Args(S)[k], c) : IntoDart(E, c)}

Tuple2Impl(S, c) ==
    IF Ctor(S) = "Tuple" /\ Len(Args(S)) = 2
    THEN {TupleOf(<<AD, BD>>) : AD \in SlotImpls(S, c, 1), BD \in SlotImpls(S, c, 2)}
    ELSE {}

Tuple3Impl(S, c) ==
    IF Ctor(S) = "Tuple" /\ Len(Args(S)) = 3
    THEN {TupleOf(<<AD, BD, CD>>) : AD \in SlotImpls(S, c, 1), BD \in SlotImpls(S, c, 2),
                                    CD \in SlotImpls(S, c, 3)}
    ELSE {}

Tuple4Impl(S, c) ==
    IF Ctor(S) = "Tuple" /\ Len(Args(S)) = 4
    THEN {TupleOf(<<AD, BD, CD, DD>>) :
            AD \in SlotImpls(S, c, 1), BD \in SlotImpls(S, c, 2),
            CD \in SlotImpls(S, c, 3), DD \in SlotImpls(S, c, 4)}
    ELSE {}

Tuple5Impl(S, c) ==
    IF Ctor(S) = "Tuple" /\ Len(Args(S)) = 5
    THEN {TupleOf(<<AD, BD, CD, DD, ED>>) :
            AD \in SlotImpls(S, c, 1), BD \in SlotImpls(S, c, 2),
            CD \in SlotImpls(S, c, 3), DD \in SlotImpls(S, c, 4),
            ED \in SlotImpls(S, c, 5)}
    ELSE {}

\* Mutant: a generic impl<T: IntoDart> IntoIntoDart<T> for T.
AnyTypeImpl(S, c) ==
    IF IntoDart(S, c) THEN {S} ELSE {}

BySelfImpl(S, c) ==
    IF Ctor(S) \in BySelfTypes(c) /\ IntoDart(S, c) THEN {S} ELSE {}

\* The impls that apply to S, each as <<impl, D>>.
Applicable(S, c) ==
    {<<"Vec", D>> : D \in VecImpl(S, c)}
    \cup {<<"Option", D>> : D \in OptionImpl(S, c)}
    \cup {<<"RustOpaque", D>> : D \in RustOpaqueImpl(S, c)}
    \cup {<<"ZeroCopyBuffer", D>> : D \in ZeroCopyBufferImpl(S, c)}
    \cup {<<"Array", D>> : D \in ArrayImpl(S, c)}
    \cup {<<"Box", D>> : D \in BoxImpl(S, c)}
    \cup {<<"Tuple2", D>> : D \in Tuple2Impl(S, c)}
    \cup {<<"Tuple3", D>> : D \in Tuple3Impl(S, c)}
    \cup {<<"Tuple4", D>> : D \in Tuple4Impl(S, c)}
    \cup {<<"Tuple5", D>> : D \in Tuple5Impl(S, c)}
    \cup {<<"BySelf", D>> : D \in BySelfImpl(S, c)}

Impls(S, c) == {r[2] : r \in Applicable(S, c)}

\* The two ways a call is written: value.into_into_dart() and
\* IntoIntoDart::into_into_dart(value).
CallForms == {"method", "path"}

\* The type a method call looks the impl up on: the type of the receiver, or,
\* where no impl applies to it and it is a Box, a reference or an Rc, that of
\* its interior (the receiver of a method call is dereferenced until an impl
\* applies).
RECURSIVE AutoDeref(_, _)
AutoDeref(S, c) ==
    IF Ctor(S) \in Pointers /\ Applicable(S, c) = {} THEN AutoDeref(Arg(S), c) ELSE S

\* The Self type of a call written in form f on a value of type S.
ReceiverType(f, S, c) == IF f = "method" THEN AutoDeref(S, c) ELSE S

\* Dereferencing S to R passes a reference or an Rc: the receiver is lent.
RECURSIVE Borrowed(_, _)
Borrowed(S, R) ==
    IF S = R \/ Ctor(S) \notin Pointers THEN FALSE
    ELSE Ctor(S) \in {"Ref", "Rc"} \/ Borrowed(Arg(S), R)

\* T: Copy. into_into_dart takes self by value, and a lent receiver is moved
\* out of only by a copy.
CopyTypes ==
    {"u8", "i8", "u16", "i16", "u32", "i32", "u64", "i64", "f32", "f64",
     "bool", "unit", "usize", "Uuid"} \cup ChronoTypes

RECURSIVE Copy(_)
Copy(T) ==
    CASE Ctor(T) \in LeafNames -> Ctor(T) \in CopyTypes
      [] Ctor(T) \in {"Option", "Array"} -> Copy(Arg(T))
      [] Ctor(T) = "Tuple" -> \A k \in 1..Len(Args(T)) : Copy(Args(T)[k])
      [] Ctor(T) = "Ref" -> TRUE
      [] OTHER -> FALSE

\* Trait resolution: the call compiles when exactly one impl applies to the
\* Self type, and self can be moved out of the receiver.
Resolves(f, S, c) ==
    LET R == ReceiverType(f, S, c)
    IN  /\ Cardinality(Applicable(R, c)) = 1
        /\ Borrowed(S, R) => Copy(R)
Selected(S, c) == (CHOOSE r \in Applicable(S, c) : TRUE)[1]
Target(S, c) == (CHOOSE r \in Applicable(S, c) : TRUE)[2]

(***************************************************************************)
(* The impls, at the value level: fn into_into_dart(self) -> D.            *)
(***************************************************************************)
Kids(v) == v[2]
Kid(v) == v[2][1]

None == <<"None", <<>>, 0>>
Some(v) == <<"Some", <<v>>, 0>>

\* What a call yields where no impl exists (such a call does not compile).
NoImpl == <<"NoImpl", <<>>, 0>>

\* What a call yields when its body panics.
Panic == <<"Panic", <<>>, 0>>

RECURSIVE into_into_dart(_, _, _)

\* Mutant: the elements collected in reverse order.
vec_into_into_dart_reversed(S, v, c) ==
    <<"Vec", [i \in 1..Len(Kids(v)) |->
                into_into_dart(Arg(S), Kids(v)[Len(Kids(v)) + 1 - i], c)], 0>>

\* self.into_iter().map(|e| e.into_into_dart()).collect()
vec_into_into_dart(S, v, c) ==
    <<"Vec", [i \in 1..Len(Kids(v)) |-> into_into_dart(Arg(S), Kids(v)[i], c)], 0>>

\* Mutant: and_then in place of map, the converted value dropped.
option_into_into_dart_dropped(S, v, c) == None

\* Mutant: Some(self.unwrap().into_into_dart()), which panics on None.
option_into_into_dart_unwrap(S, v, c) ==
    IF v = None THEN Panic ELSE Some(into_into_dart(Arg(S), Kid(v), c))

\* self.map(|e| e.into_into_dart())
option_into_into_dart(S, v, c) ==
    IF v = None THEN None ELSE Some(into_into_dart(Arg(S), Kid(v), c))

\* self
rust_opaque_into_into_dart(S, v, c) == v

\* Mutant: the interior converted and not wrapped again.
zero_copy_buffer_into_into_dart_unwrapped(S, v, c) ==
    into_into_dart(Arg(S), Kid(v), c)

\* ZeroCopyBuffer(self.0.into_into_dart())
zero_copy_buffer_into_into_dart(S, v, c) ==
    <<"ZeroCopyBuffer", <<into_into_dart(Arg(S), Kid(v), c)>>, 0>>

\* Mutant: the array returned as a sequence (self.to_vec()).
array_into_into_dart_as_vec(S, v, c) == <<"Vec", Kids(v), 0>>

\* self
array_into_into_dart(S, v, c) == v

\* Mutant: the box returned as it is.
box_into_into_dart_kept(S, v, c) == v

\* *self
box_into_into_dart(S, v, c) == Kid(v)

\* self.k.into_into_dart() of slot k
Slot(S, v, c, k) == into_into_dart(Args(S)[k], Kids(v)[k], c)

tuple2_into_into_dart(S, v, c) ==
    <<"Tuple", <<Slot(S, v, c, 1), Slot(S, v, c, 2)>>, 0>>

\* Mutant: slots 0 and 2 exchanged.
tuple3_into_into_dart_swapped(S, v, c) ==
    <<"Tuple", <<into_into_dart(Args(S)[3], Kids(v)[3], c), Slot(S, v, c, 2),
                 into_into_dart(Args(S)[1], Kids(v)[1], c)>>, 0>>

tuple3_into_into_dart(S, v, c) ==
    <<"Tuple", <<Slot(S, v, c, 1), Slot(S, v, c, 2), Slot(S, v, c, 3)>>, 0>>

tuple4_into_into_dart(S, v, c) ==
    <<"Tuple", <<Slot(S, v, c, 1), Slot(S, v, c, 2), Slot(S, v, c, 3),
                 Slot(S, v, c, 4)>>, 0>>

tuple5_into_into_dart(S, v, c) ==
    <<"Tuple", <<Slot(S, v, c, 1), Slot(S, v, c, 2), Slot(S, v, c, 3),
                 Slot(S, v, c, 4), Slot(S, v, c, 5)>>, 0>>

NumericTypes ==
    {"u8", "i8", "u16", "i16", "u32", "i32", "u64", "i64", "f32", "f64", "usize"}

\* Mutant: a number passed through a lossy conversion.
by_self_into_into_dart_lossy(S, v, c) ==
    IF v[1] \in NumericTypes THEN <<v[1], v[2], v[3] \div 2>> ELSE v

\* self
by_self_into_into_dart(S, v, c) == v

\* The body of the impl named r, applied to v: S.
Body(r, S, v, c) ==
    CASE r = "Vec" -> vec_into_into_dart(S, v, c)
      [] r = "Option" -> option_into_into_dart(S, v, c)
      [] r = "RustOpaque" -> rust_opaque_into_into_dart(S, v, c)
      [] r = "ZeroCopyBuffer" -> zero_copy_buffer_into_into_dart(S, v, c)
      [] r = "Array" -> array_into_into_dart(S, v, c)
      [] r = "Box" -> box_into_into_dart(S, v, c)
      [] r = "Tuple2" -> tuple2_into_into_dart(S, v, c)
      [] r = "Tuple3" -> tuple3_into_into_dart(S, v, c)
      [] r = "Tuple4" -> tuple4_into_into_dart(S, v, c)
      [] r = "Tuple5" -> tuple5_into_into_dart(S, v, c)
      [] r = "BySelf" -> by_self_into_into_dart(S, v, c)

\* e.into_into_dart() inside an impl, where e: S and the where clause names the
\* impl of S: statically dispatched on S.
into_into_dart(S, v, c) ==
    LET impls == Applicable(S, c)
    IN  IF impls = {} THEN NoImpl ELSE Body((CHOOSE r \in impls : TRUE)[1], S, v, c)

(***************************************************************************)
(* The inputs: the types a call site may name, and values of each type.    *)
(***************************************************************************)
Handle == RustOpaqueOf(Leaf("UserStruct"))

\* Slot k of the sample tuples.
SlotCycle(k) ==
    CASE k % 4 = 1 -> Leaf("u8")
      [] k % 4 = 2 -> Leaf("String")
      [] k % 4 = 3 -> Handle
      [] OTHER -> Leaf("bool")

SampleTuples ==
    {TupleOf([k \in 1..n |-> SlotCycle(k)]) : n \in 1..MaxArity}
    \cup {TupleOf(<<Leaf("u8"), Leaf("UserStruct")>>),
          TupleOf(<<Leaf("UserStruct"), Leaf("u8"), Leaf("u8")>>),
          TupleOf(<<BoxOf(Leaf("u8")), Leaf("String"), VecOf(Leaf("Uuid"))>>),
          TupleOf(<<Leaf("u8"), OptionOf(Leaf("String")), Leaf("u8"), BoxOf(Handle)>>),
          TupleOf(<<VecOf(Leaf("bool")), Leaf("u8"), Leaf("u8"), Leaf("u8"),
                    BoxOf(Leaf("String"))>>)}

\* The types the containers are nested over.
BaseShapes ==
    {Leaf(n) : n \in {"u8", "String", "Uuid", "UserStruct"}}
    \cup {Handle, TupleOf(<<Leaf("u8"), Leaf("String")>>), TupleOf(<<Handle, Handle>>)}

Wrap(U) ==
    {VecOf(T) : T \in U} \cup {OptionOf(T) : T \in U}
    \cup {ZeroCopyBufferOf(T) : T \in U} \cup {BoxOf(T) : T \in U}
    \cup {ArrayOf(T, MaxLen) : T \in U}

\* The types a reference or an Rc is taken of, and the lent receivers.
Pointees ==
    BaseShapes
    \cup {Leaf("bool"), BoxOf(Leaf("u8")), BoxOf(BoxOf(Leaf("u8"))), VecOf(Leaf("u8")),
          OptionOf(Leaf("u8")), OptionOf(Leaf("String")), TupleOf(<<Leaf("u8"), Leaf("bool")>>),
          ArrayOf(Leaf("u8"), MaxLen), RefOf(Leaf("u8")), RcOf(Leaf("String"))}

PointerShapes ==
    {RefOf(T) : T \in Pointees} \cup {RcOf(T) : T \in Pointees}
    \cup {BoxOf(RefOf(Leaf("u8"))), BoxOf(RcOf(Leaf("u8")))}

RECURSIVE Nested(_)
Nested(d) == IF d = 0 THEN BaseShapes ELSE BaseShapes \cup Wrap(Nested(d - 1))

Shapes ==
    Nested(MaxDepth)
    \cup {Leaf(n) : n \in LeafNames}
    \cup {RustOpaqueOf(Leaf("UnsafeCellStruct"))}
    \cup {ArrayOf(Leaf("u8"), C) : C \in 0..MaxLen}
    \cup SampleTuples
    \cup {VecOf(Leaf(n)) : n \in ConditionalTypes}
    \cup {BoxOf(Leaf(n)) : n \in ConditionalTypes}
    \cup PointerShapes

\* The types method calls are made on: a method call differs from a path call
\* in the lookup through a Box, a reference or an Rc alone.
MethodShapes ==
    {S \in Shapes : Ctor(S) \in Pointers} \cup BaseShapes \cup SampleTuples

CallShapes(f) == IF f = "method" THEN MethodShapes ELSE Shapes

StringSample == <<"", "a", "ab", "b">>

\* A value of type S, drawn by seed.
RECURSIVE Gen(_, _)
Gen(S, seed) ==
    CASE Ctor(S) = "Vec" ->
            <<"Vec", [i \in 1..(seed % (MaxLen + 1)) |-> Gen(Arg(S), seed + i)], 0>>
      [] Ctor(S) = "Option" ->
            IF seed % 2 = 0 THEN None ELSE Some(Gen(Arg(S), seed \div 2))
      [] Ctor(S) = "RustOpaque" -> <<"RustOpaque", <<>>, seed>>
      [] Ctor(S) = "ZeroCopyBuffer" -> <<"ZeroCopyBuffer", <<Gen(Arg(S), seed)>>, 0>>
      [] Ctor(S) = "Array" -> <<"Array", [i \in 1..S[3] |-> Gen(Arg(S), seed + i)], 0>>
      [] Ctor(S) \in Pointers -> <<Ctor(S), <<Gen(Arg(S), seed)>>, 0>>
      [] Ctor(S) = "Tuple" ->
            <<"Tuple", [k \in 1..Len(Args(S)) |-> Gen(Args(S)[k], seed + k)], 0>>
      [] Ctor(S) = "String" -> <<"String", <<>>, StringSample[(seed % 4) + 1]>>
      [] Ctor(S) = "bool" -> <<"bool", <<>>, seed % 2>>
      [] Ctor(S) = "unit" -> <<"unit", <<>>, 0>>
      [] OTHER -> <<Ctor(S), <<>>, seed % (MaxData + 1)>>

\* vec![Some((1u8, "a".to_string())), None]
ExampleShape == VecOf(OptionOf(TupleOf(<<Leaf("u8"), Leaf("String")>>)))
ExampleValue ==
    <<"Vec", <<Some(<<"Tuple", <<(<<"u8", <<>>, 1>>), (<<"String", <<>>, "a">>)>>, 0>>),
               None>>, 0>>

Inputs(S) ==
    {Gen(S, seed) : seed \in 0..MaxSeed}
    \cup (IF S = ExampleShape THEN {ExampleValue} ELSE {})

NoValue == <<"NoValue", <<>>, 0>>
NoType == <<"NoType", <<>>, 0>>

(***************************************************************************)
(* A call of into_into_dart on value: shape, written in one of the two     *)
(* call forms and built under cfg. The build resolves the call to one impl *)
(* on the receiver type recv (Compile) or fails (CompileError); the        *)
(* compiled call then runs the body of that impl on the receiver.          *)
(***************************************************************************)
\* The value a call passes as self: v: S dereferenced to the receiver type R.
RECURSIVE Receiver(_, _, _)
Receiver(S, v, R) ==
    IF S = R \/ Ctor(S) \notin Pointers THEN v ELSE Receiver(Arg(S), Kid(v), R)

Init ==
    /\ cfg \in Configs
    /\ form \in CallForms
    /\ shape \in CallShapes(form)
    /\ value \in Inputs(shape)
    /\ pc = "source"
    /\ recv = NoType
    /\ rule = "none"
    /\ target = NoType
    /\ out = NoValue

Compile ==
    /\ pc = "source"
    /\ LET R == ReceiverType(form, shape, cfg)
           impls == Applicable(R, cfg)
       IN  /\ Cardinality(impls) = 1
           /\ Borrowed(shape, R) => Copy(R)
           /\ recv' = R
           /\ rule' = (CHOOSE r \in impls : TRUE)[1]
           /\ target' = (CHOOSE r \in impls : TRUE)[2]
    /\ pc' = "compiled"
    /\ UNCHANGED <<cfg, form, shape, value, out>>

\* No impl, or more than one, applies: the call does not compile.
CompileError ==
    /\ pc = "source"
    /\ ~Resolves(form, shape, cfg)
    /\ pc' = "rejected"
    /\ UNCHANGED <<cfg, form, shape, value, recv, rule, target, out>>

Return(v) ==
    /\ out' = v
    /\ pc' = "done"
    /\ UNCHANGED <<cfg, form, shape, value, recv, rule, target>>

CallVec ==
    /\ pc = "compiled" /\ rule = "Vec"
    /\ Return(vec_into_into_dart(recv, Receiver(shape, value, recv), cfg))

CallOption ==
    /\ pc = "compiled" /\ rule = "Option"
    /\ Return(option_into_into_dart(recv, Receiver(shape, value, recv), cfg))

CallRustOpaque ==
    /\ pc = "compiled" /\ rule = "RustOpaque"
    /\ Return(rust_opaque_into_into_dart(recv, Receiver(shape, value, recv), cfg))

CallZeroCopyBuffer ==
    /\ pc = "compiled" /\ rule = "ZeroCopyBuffer"
    /\ Return(zero_copy_buffer_into_into_dart(recv, Receiver(shape, value, recv), cfg))

CallArray ==
    /\ pc = "compiled" /\ rule = "Array"
    /\ Return(array_into_into_dart(recv, Receiver(shape, value, recv), cfg))

CallBox ==
    /\ pc = "compiled" /\ rule = "Box"
    /\ Return(box_into_into_dart(recv, Receiver(shape, value, recv), cfg))

CallTuple2 ==
    /\ pc = "compiled" /\ rule = "Tuple2"
    /\ Return(tuple2_into_into_dart(recv, Receiver(shape, value, recv), cfg))

CallTuple3 ==
    /\ pc = "compiled" /\ rule = "Tuple3"
    /\ Return(tuple3_into_into_dart(recv, Receiver(shape, value, recv), cfg))

CallTuple4 ==
    /\ pc = "compiled" /\ rule = "Tuple4"
    /\ Return(tuple4_into_into_dart(recv, Receiver(shape, value, recv), cfg))

CallTuple5 ==
    /\ pc = "compiled" /\ rule = "Tuple5"
    /\ Return(tuple5_into_into_dart(recv, Receiver(shape, value, recv), cfg))

CallBySelf ==
    /\ pc = "compiled" /\ rule = "BySelf"
    /\ Return(by_self_into_into_dart(recv, Receiver(shape, value, recv), cfg))

Next ==
    \/ Compile
    \/ CompileError
    \/ CallVec
    \/ CallOption
    \/ CallRustOpaque
    \/ CallZeroCopyBuffer
    \/ CallArray
    \/ CallBox
    \/ CallTuple2
    \/ CallTuple3
    \/ CallTuple4
    \/ CallTuple5
    \/ CallBySelf

Spec == Init /\ [][Next]_vars

(***************************************************************************)
(* Notions the properties are stated with.                                 *)
(***************************************************************************)
Done == pc = "done"

\* v is a value of type S.
RECURSIVE HasShape(_, _)
HasShape(v, S) ==
    CASE Ctor(S) = "Vec" ->
            v[1] = "Vec" /\ \A i \in 1..Len(Kids(v)) : HasShape(Kids(v)[i], Arg(S))
      [] Ctor(S) = "Option" ->
            v = None \/ (v[1] = "Some" /\ Len(Kids(v)) = 1 /\ HasShape(Kid(v), Arg(S)))
      [] Ctor(S) = "RustOpaque" -> v[1] = "RustOpaque"
      [] Ctor(S) = "ZeroCopyBuffer" ->
            v[1] = "ZeroCopyBuffer" /\ Len(Kids(v)) = 1 /\ HasShape(Kid(v), Arg(S))
      [] Ctor(S) = "Array" ->
            /\ v[1] = "Array" /\ Len(Kids(v)) = S[3]
            /\ \A i \in 1..Len(Kids(v)) : HasShape(Kids(v)[i], Arg(S))
      [] Ctor(S) \in Pointers ->
            v[1] = Ctor(S) /\ Len(Kids(v)) = 1 /\ HasShape(Kid(v), Arg(S))
      [] Ctor(S) = "Tuple" ->
            /\ v[1] = "Tuple" /\ Len(Kids(v)) = Len(Args(S))
            /\ \A k \in 1..Len(Kids(v)) : HasShape(Kids(v)[k], Args(S)[k])
      [] OTHER -> v[1] = Ctor(S) /\ Kids(v) = <<>>

\* No part of v is the result of a call without an impl, or of a panic.
RECURSIVE Converted(_)
Converted(v) == v \notin {NoImpl, Panic} /\ \A i \in 1..Len(Kids(v)) : Converted(Kids(v)[i])

\* The container layers of v: v without the payloads of its leaves.
RECURSIVE Skeleton(_)
Skeleton(v) == <<v[1], [i \in 1..Len(Kids(v)) |-> Skeleton(Kids(v)[i])], 0>>

ContainerTags == {"Vec", "Some", "None", "ZeroCopyBuffer", "Array", "Box", "Tuple"}

\* The leaves of v, left to right.
RECURSIVE Leaves(_)
RECURSIVE LeavesOfAll(_)
Leaves(v) == IF v[1] \in ContainerTags THEN LeavesOfAll(Kids(v)) ELSE <<v>>
LeavesOfAll(vs) ==
    IF Len(vs) = 0 THEN <<>> ELSE Leaves(vs[1]) \o LeavesOfAll([i \in 1..(Len(vs) - 1) |-> vs[i + 1]])

\* The container layers of v: S with each Box the Box impl is applied to removed.
RECURSIVE Unboxed(_, _)
Unboxed(S, v) ==
    CASE Ctor(S) = "Box" -> Skeleton(Kid(v))
      [] Ctor(S) \in {"Vec", "ZeroCopyBuffer"} ->
            <<v[1], [i \in 1..Len(Kids(v)) |-> Unboxed(Arg(S), Kids(v)[i])], 0>>
      [] Ctor(S) = "Option" ->
            <<v[1], [i \in 1..Len(Kids(v)) |-> Unboxed(Arg(S), Kids(v)[i])], 0>>
      [] Ctor(S) = "Tuple" ->
            <<v[1], [k \in 1..Len(Kids(v)) |-> Unboxed(Args(S)[k], Kids(v)[k])], 0>>
      [] OTHER -> Skeleton(v)

\* S and the types nested in it.
RECURSIVE SubShapes(_)
SubShapes(S) == {S} \cup UNION {SubShapes(Args(S)[k]) : k \in 1..Len(Args(S))}

\* The leaf type names S is built over.
Mentions(S) == {Ctor(T) : T \in SubShapes(S)} \cap LeafNames

\* The capabilities of a build configuration, and whether c enables one.
Capabilities == {"native", "wasm", "uuid", "chrono"}
Enabled(g, c) ==
    CASE g = "native" -> ~c.wasm
      [] g = "wasm" -> c.wasm
      [] g = "uuid" -> c.uuid
      [] g = "chrono" -> c.chrono

\* The capability the cfg attribute of a leaf impl names.
CapabilityOf(t) ==
    CASE t = "DartCObject" -> "native"
      [] t = "JsValue" -> "wasm"
      [] t = "Uuid" -> "uuid"
      [] t \in ChronoTypes -> "chrono"

\* The leaf types a cfg predicate decides on, and c with that predicate negated.
GatedBy(f) ==
    CASE f = "wasm" -> {"DartCObject", "JsValue"}
      [] f = "uuid" -> {"Uuid"}
      [] f = "chrono" -> ChronoTypes
Flip(c, f) ==
    CASE f = "wasm" -> [c EXCEPT !.wasm = ~c.wasm]
      [] f = "uuid" -> [c EXCEPT !.uuid = ~c.uuid]
      [] f = "chrono" -> [c EXCEPT !.chrono = ~c.chrono]

\* S nests only the recursive containers, over leaves that have an impl under c.
RECURSIVE Composite(_, _)
Composite(S, c) ==
    CASE Ctor(S) \in {"Vec", "Option", "ZeroCopyBuffer"} -> Composite(Arg(S), c)
      [] Ctor(S) = "Tuple" ->
            /\ Len(Args(S)) \in 2..5
            /\ \A k \in 1..Len(Args(S)) : Composite(Args(S)[k], c)
      [] Ctor(S) = "RustOpaque" -> DartSafe(Arg(S))
      [] Ctor(S) \in LeafNames -> Ctor(S) \in BySelfTypes(c)
      [] OTHER -> FALSE

\* The laws of the layers, at every nesting level of a composite type.
RECURSIVE Lawful(_, _, _)
Lawful(S, v, o) ==
    CASE Ctor(S) = "Vec" ->
            /\ o[1] = "Vec" /\ Len(Kids(o)) = Len(Kids(v))
            /\ \A i \in 1..Len(Kids(v)) : Lawful(Arg(S), Kids(v)[i], Kids(o)[i])
      [] Ctor(S) = "Option" ->
            /\ (v = None) <=> (o = None)
            /\ v # None => o[1] = "Some" /\ Len(Kids(o)) = 1 /\ Lawful(Arg(S), Kid(v), Kid(o))
      [] Ctor(S) = "ZeroCopyBuffer" ->
            o[1] = "ZeroCopyBuffer" /\ Len(Kids(o)) = 1 /\ Lawful(Arg(S), Kid(v), Kid(o))
      [] Ctor(S) = "Tuple" ->
            /\ o[1] = "Tuple" /\ Len(Kids(o)) = Len(Kids(v))
            /\ \A k \in 1..Len(Kids(v)) : Lawful(Args(S)[k], Kids(v)[k], Kids(o)[k])
      [] OTHER -> o = v

(***************************************************************************)
(* The claims.                                                             *)
(***************************************************************************)

\* The value the selected impl is called on.
Self == Receiver(shape, value, recv)

\* C1: the Vec impl returns a sequence of the same length whose i-th element is
\* the conversion of the i-th element of the input, for every i; the empty
\* sequence converts to the empty sequence.
C1_VecMapsInOrder ==
    (Done /\ rule = "Vec") =>
        /\ Ctor(recv) = "Vec"
        /\ out[1] = "Vec"
        /\ Len(Kids(out)) = Len(Kids(Self))
        /\ \A i \in 1..Len(Kids(Self)) :
                Kids(out)[i] = into_into_dart(Arg(recv), Kids(Self)[i], cfg)
        /\ (Kids(Self) = <<>> => out = Self)

C1_Witness ==
    /\ Done /\ shape = VecOf(BoxOf(Leaf("u8")))
    /\ Len(Kids(value)) = 2
    /\ Kids(out)[1] # Kids(out)[2]
    /\ Kids(out)[1] = Kid(Kids(value)[1])

\* C2: the Option impl preserves presence: None yields None, Some(x) yields
\* Some of the conversion of x.
C2_OptionPreservesPresence ==
    (Done /\ rule = "Option") =>
        /\ Ctor(recv) = "Option"
        /\ (Self = None => out = None)
        /\ (Self # None => out = Some(into_into_dart(Arg(recv), Kid(Self), cfg)))
        /\ ((out = None) <=> (Self = None))

C2_Witness ==
    /\ Done /\ rule = "Option"
    /\ recv = shape
    /\ value # None
    /\ out # value
    /\ out[1] = "Some"

\* C3: a tuple of arity 2..5 converts to a tuple of the same arity whose k-th
\* slot is the conversion of the k-th slot of the input; a tuple of arity 1, or
\* of arity 6 and above, has no impl.
C3_TupleSlots ==
    /\ (Done /\ rule \in {"Tuple2", "Tuple3", "Tuple4", "Tuple5"}) =>
        /\ Ctor(recv) = "Tuple"
        /\ rule = <<"Tuple2", "Tuple3", "Tuple4", "Tuple5">>[Len(Args(recv)) - 1]
        /\ out[1] = "Tuple"
        /\ Len(Kids(out)) = Len(Args(recv))
        /\ Len(Kids(Self)) = Len(Args(recv))
        /\ \A k \in 1..Len(Args(recv)) :
                Kids(out)[k] = into_into_dart(Args(recv)[k], Kids(Self)[k], cfg)
    /\ (Ctor(shape) = "Tuple" /\ Len(Args(shape)) \notin 2..5) =>
        /\ Applicable(shape, cfg) = {}
        /\ pc \in {"source", "rejected"}

C3_Witness ==
    /\ Done /\ rule = "Tuple3"
    /\ shape = TupleOf(<<BoxOf(Leaf("u8")), Leaf("String"), VecOf(Leaf("Uuid"))>>)
    /\ Kids(out)[1] = Kid(Kids(value)[1])
    /\ Kids(out)[2] = Kids(value)[2]

\* C4: the Box impl yields the interior of the box as it is: the target of Box<T>
\* is T, the result is the boxed value, and the impl applies where T: IntoDart
\* (whether or not T has an impl of its own).
C4_BoxYieldsInterior ==
    /\ (Done /\ rule = "Box") =>
        /\ Ctor(recv) = "Box"
        /\ out = Kid(Self)
        /\ target = Arg(recv)
        /\ HasShape(out, Arg(recv))
    /\ (Ctor(recv) = "Box" /\ pc \in {"compiled", "done"}) =>
            rule = "Box" /\ IntoDart(Arg(recv), cfg)
    /\ (Ctor(shape) = "Box" /\ ~IntoDart(Arg(shape), cfg)) =>
        /\ Applicable(shape, cfg) = {}
        /\ recv # shape
        /\ (form = "path" => pc \in {"source", "rejected"})
    /\ (Ctor(shape) = "Box" /\ pc = "rejected") => ~IntoDart(Arg(shape), cfg)

C4_Witness ==
    /\ Done /\ shape = BoxOf(VecOf(Leaf("u8")))
    /\ recv = shape
    /\ Len(Kids(Kid(value))) = 2
    /\ out = Kid(value)

\* C5: every identity impl returns its input: the primitive types, RustOpaque<T>
\* and [T; C] each convert to the same type, and the result equals the input.
C5_IdentityImpls ==
    /\ (Done /\ rule \in {"BySelf", "RustOpaque", "Array"}) =>
        /\ out = Self
        /\ target = recv
    /\ Ctor(shape) \in PrimitiveTypes => Applicable(shape, cfg) = {<<"BySelf", shape>>}
    /\ (Ctor(shape) = "RustOpaque" /\ DartSafe(Arg(shape))) =>
            Applicable(shape, cfg) = {<<"RustOpaque", shape>>}
    /\ (Ctor(shape) = "Array" /\ IntoDart(Arg(shape), cfg)) =>
            Applicable(shape, cfg) = {<<"Array", shape>>}

C5_Witness ==
    /\ Done /\ rule = "BySelf"
    /\ Ctor(shape) = "u8"
    /\ value[3] = 1
    /\ out = value

\* C6: at every nesting level of a type at most one impl applies, so the target
\* type is a function of the source type; a type without an impl of its own
\* has none (there is no impl for every T).
C6_ImplsDisjoint ==
    /\ \A T \in SubShapes(shape) :
        /\ Cardinality(Applicable(T, cfg)) <= 1
        /\ Cardinality(Impls(T, cfg)) <= 1
        /\ (Ctor(T) \in UserTypes => Applicable(T, cfg) = {})
    /\ pc \in {"compiled", "done"} =>
        /\ recv \in SubShapes(shape)
        /\ Applicable(recv, cfg) = {<<rule, target>>}

C6_Witness ==
    /\ Done /\ rule = "Vec"
    /\ recv = shape
    /\ Ctor(Arg(shape)) = "Option"
    /\ Cardinality(SubShapes(shape)) >= 3
    /\ \A T \in SubShapes(shape) : Cardinality(Applicable(T, cfg)) = 1

\* C7 as stated: each conditional leaf type (Backtrace among them) has its impl
\* only where a capability of the build configuration is enabled, one that some
\* configuration disables; and negating a cfg predicate changes the impls of no
\* type built without the leaf types it decides on.
C7_AllConditionalLeavesGated ==
    /\ (Ctor(shape) \in ConditionalTypes /\ pc \in {"compiled", "done"}) =>
            \E g \in Capabilities :
                /\ Enabled(g, cfg)
                /\ \A c \in Configs : Applicable(shape, c) # {} => Enabled(g, c)
    /\ \A f \in {"wasm", "uuid", "chrono"} :
            Mentions(shape) \cap GatedBy(f) = {} =>
                Applicable(shape, Flip(cfg, f)) = Applicable(shape, cfg)

\* C7 as amended: each conditional leaf type other than Backtrace has its impl
\* only where its capability is enabled (DartCObject: not wasm; JsValue: wasm;
\* Uuid: feature uuid; the chrono types: feature chrono); Backtrace has its impl
\* in every configuration; and negating a cfg predicate changes the impls of no
\* type built without the leaf types it decides on.
C7_GatedLeaves ==
    /\ Ctor(shape) \in ConditionalTypes \ {"Backtrace"} =>
        /\ (Applicable(shape, cfg) # {} => Enabled(CapabilityOf(Ctor(shape)), cfg))
        /\ (pc \in {"compiled", "done"} => Enabled(CapabilityOf(Ctor(shape)), cfg))
        /\ (~Enabled(CapabilityOf(Ctor(shape)), cfg) => pc \in {"source", "rejected"})
    /\ Ctor(shape) = "Backtrace" =>
        /\ \A c \in Configs : Applicable(shape, c) = {<<"BySelf", shape>>}
        /\ pc # "rejected"
    /\ LET named == Mentions(shape)
           impls == Applicable(shape, cfg)
           resolves == Resolves(form, shape, cfg)
       IN  \A f \in {"wasm", "uuid", "chrono"} :
                named \cap GatedBy(f) = {} =>
                    /\ Applicable(shape, Flip(cfg, f)) = impls
                    /\ Resolves(form, shape, Flip(cfg, f)) = resolves

C7_Witness ==
    /\ pc = "rejected"
    /\ shape = Leaf("Uuid")
    /\ ~cfg.uuid
    /\ Applicable(shape, Flip(cfg, "uuid")) = {<<"BySelf", shape>>}

\* C8: every nesting of Vec, Option, ZeroCopyBuffer and tuples of arity 2..5
\* over leaves that have an impl converts, by the impls of its layers alone,
\* and the result obeys the law of each layer at every nesting level;
\* vec![Some((1u8, "a")), None] converts to [Some((1u8, "a")), None].
C8_Composable ==
    Composite(shape, cfg) =>
        /\ Cardinality(Applicable(shape, cfg)) = 1
        /\ Resolves(form, shape, cfg)
        /\ pc # "rejected"
        /\ (pc \in {"compiled", "done"} => recv = shape /\ rule = Selected(shape, cfg))
        /\ (Done => Lawful(shape, value, out))
        /\ ((Done /\ shape = ExampleShape /\ value = ExampleValue) =>
                /\ Len(Kids(out)) = 2
                /\ Kids(out)[1] = Kids(ExampleValue)[1]
                /\ Kids(out)[2] = None)

C8_Witness ==
    /\ Done
    /\ shape = ExampleShape
    /\ value = ExampleValue
    /\ out = ExampleValue

\* C9 as stated: where an impl applies to the type of the input, the result has
\* the container layers of the input, each of the same kind, and is a value of
\* the target type.
C9_EveryLayerPreserved ==
    (Done /\ Applicable(shape, cfg) # {}) =>
        Skeleton(out) = Skeleton(value) /\ HasShape(out, target)

\* C9 as amended: where an impl applies to the type of the input, the result has
\* the container layers of the input, each of the same kind, except each Box
\* the Box impl is applied to, which is removed; its leaves are the leaves of
\* the input in the same order; and it is a value of the target type.
C9_LayersPreservedButBox ==
    (Done /\ Applicable(shape, cfg) # {}) =>
        /\ recv = shape
        /\ Skeleton(out) = Unboxed(shape, value)
        /\ Leaves(out) = Leaves(value)
        /\ HasShape(out, target)

C9_Witness ==
    /\ Done /\ shape = VecOf(BoxOf(Leaf("String")))
    /\ Len(Kids(value)) = 2
    /\ Skeleton(out) # Skeleton(value)
    /\ out[1] = "Vec"

\* S and the types a method call dereferences it to.
RECURSIVE Derefs(_)
Derefs(S) == {S} \cup (IF Ctor(S) \in Pointers THEN Derefs(Arg(S)) ELSE {})

\* A call that compiles returns a fully converted value of the target type,
\* without a panic and without an unconverted part; a call that does not
\* compile yields nothing.
NoRuntimeFailure ==
    /\ Done => Converted(out) /\ HasShape(out, target)
    /\ pc = "rejected" => out = NoValue /\ rule = "none"
    /\ pc = "compiled" => ENABLED Next

====
